---- MODULE Spec2Model ----
(***************************************************************************)
(* Rocklab SaaS backend (functions/src/index.ts): the five callable        *)
(* functions createOrg, createInvite, acceptInvite, submitOnboarding and   *)
(* approveMember over the Firestore collections orgs, orgMembers and       *)
(* invites.                                                                *)
(*                                                                         *)
(* Every handler is an async function and each `await` of a store call is  *)
(* a suspension point.  No handler uses a transaction or a batch, so a     *)
(* handler is modelled as one action per awaited store call: the store     *)
(* call together with the synchronous code that runs before it (since the  *)
(* previous store call, or since the invocation) and after it (up to the   *)
(* next store call, or to the return or throw).  The handlers of           *)
(* concurrent invocations interleave at these points.  The first action of *)
(* a handler carries the name of the operation.                            *)
(*                                                                         *)
(* Server timestamps (createdAt, joinedAt, onboardedAt, approvedAt) are    *)
(* abstracted to "set" / absent: no claim depends on their value.          *)
(***************************************************************************)
EXTENDS Integers, Sequences, FiniteSets, TLC

\* ---------------------------------------------------------------- bounds
MaxOrgs == 2        \* organization ids that may be generated
MaxInvites == 2     \* invitation ids that may be generated
MaxCalls == 4       \* invocations in one behaviour
MaxInFlight == 2    \* handler invocations that may run concurrently

\* ---------------------------------------------------------------- values
NA == "<n/a>"          \* payload field not used by the operation
Absent == "<absent>"   \* document field that is not set

\* request.auth of the callers: uid and token.email.  U2 and U3 are two
\* identities that carry the same email.
Identities ==
  { [uid |-> "U1", email |-> "a@x.com"],
    [uid |-> "U2", email |-> "b@x.com"],
    [uid |-> "U3", email |-> "b@x.com"] }

\* request.auth is undefined
NoAuth == [uid |-> Absent, email |-> Absent]

Auths == Identities \cup {NoAuth}

Uids == {a.uid : a \in Identities}

Emails == {a.email : a \in Identities}

\* name / slug payloads: the empty string is falsy in `!name || !slug`
Names == {"", "Acme"}

Slugs == {"", "acme"}

\* role payloads: the TypeScript type 'admin' | 'staff' is erased at run
\* time, so a caller may send any string
RolePayloads == {"admin", "staff", "root"}

MemberRoles == {"owner", "admin", "staff"}

InviteRoles == {"admin", "staff"}

\* the organization stored under a fixed document id in place of a
\* generated one
OrgIdOf_Fixed(n) == "O" \o ToString(1)

\* ids generated by the store (collection.doc() / collection.add()): fresh,
\* never reused
OrgIdOf(n) == "O" \o ToString(n)

InviteIdOf(n) == "I" \o ToString(n)

OrgIds == {OrgIdOf(n) : n \in 1..MaxOrgs}

InviteIds == {InviteIdOf(n) : n \in 1..MaxInvites}

Slots == 1..MaxInFlight

\* document id of a membership: `${orgId}_${uid}`
MemberDocId(orgId, uid) == orgId \o "_" \o uid

\* ---------------------------------------------------------------- store
DocExists(coll, id) == id \in DOMAIN coll

\* DocumentReference.set(data): creates or replaces the whole document
DocSet(coll, id, doc) ==
  [k \in (DOMAIN coll) \cup {id} |-> IF k = id THEN doc ELSE coll[k]]

\* DocumentReference.delete(): succeeds whether or not the document exists
DocDelete(coll, id) == [k \in (DOMAIN coll) \ {id} |-> coll[k]]

VARIABLES orgs, orgMembers, invites, calls, response, nextOrg, nextInvite, ncalls, accepted

vars == <<orgs, orgMembers, invites, calls, response, nextOrg, nextInvite, ncalls, accepted>>

\* ---------------------------------------------------------------- calls
NoData ==
  [name |-> NA, slug |-> NA, orgId |-> NA, email |-> NA, role |-> NA,
   inviteId |-> NA, fullName |-> NA, phone |-> NA, memberId |-> NA]

\* inviteData before the invite has been read
NoInvite == [orgId |-> NA, email |-> NA, role |-> NA]

\* a slot of the runtime that runs no handler
IdleCall ==
  [op |-> "none", pc |-> "idle", auth |-> NoAuth, data |-> NoData,
   orgId |-> NA, requesterRole |-> NA, inviteData |-> NoInvite, writes |-> 0,
   retry |-> FALSE]

InFlight(c) == calls[c].pc # "idle"

\* a new invocation takes the lowest slot that runs no handler
FreeSlot(c) == ~InFlight(c) /\ \A d \in Slots : d < c => InFlight(d)

NewCall(op, auth, data) ==
  [IdleCall EXCEPT !.op = op, !.auth = auth, !.data = data]

\* what the client of the invocation that finished last receives, with the
\* request it answers, the number of store writes the handler made and
\* whether the request was a retry
Response(call, result) ==
  [op |-> call.op, auth |-> call.auth, data |-> call.data,
   writes |-> call.writes, retry |-> call.retry, result |-> result]

NoResponse == Response(IdleCall, "none")

\* the handler in slot c goes on to its next store call
Continue(c, call) ==
  /\ calls' = [calls EXCEPT ![c] = call]
  /\ response' = response

\* throw new HttpsError(code, ...): the invocation ends with an error
Throw(c, call, code) ==
  /\ calls' = [calls EXCEPT ![c] = IdleCall]
  /\ response' = Response(call, code)

\* return { success: true, ... }: the invocation ends with success
Return(c, call) ==
  /\ calls' = [calls EXCEPT ![c] = IdleCall]
  /\ response' = Response(call, "ok")

Init ==
  /\ orgs = <<>>
  /\ orgMembers = <<>>
  /\ invites = <<>>
  /\ calls = [c \in Slots |-> IdleCall]
  /\ response = NoResponse
  /\ nextOrg = 1
  /\ nextInvite = 1
  /\ ncalls = 0
  /\ accepted = [i \in InviteIds |-> 0]

\* ---------------------------------------------------------------- documents
\* the Organization document written by createOrg
OrgDoc(orgId, name, slug, uid) ==
  [id |-> orgId, name |-> name, slug |-> slug, ownerId |-> uid,
   createdAt |-> "set", status |-> "active"]

\* the founding Membership written by createOrg
OwnerMemberDoc(orgId, uid, email) ==
  [orgId |-> orgId, uid |-> uid, email |-> email, role |-> "owner",
   status |-> "active", joinedAt |-> "set", fullName |-> Absent,
   phone |-> Absent, onboardedAt |-> Absent, approvedAt |-> Absent,
   approvedBy |-> Absent]

\* the Invitation written by createInvite
InviteDoc(orgId, email, role, uid) ==
  [orgId |-> orgId, email |-> email, role |-> role, invitedBy |-> uid,
   status |-> "pending", createdAt |-> "set"]

\* the Membership written by acceptInvite
InvitedMemberDoc(inviteData, uid, email) ==
  [orgId |-> inviteData.orgId, uid |-> uid, email |-> email,
   role |-> inviteData.role, status |-> "pending_onboarding",
   joinedAt |-> "set", fullName |-> Absent, phone |-> Absent,
   onboardedAt |-> Absent, approvedAt |-> Absent, approvedBy |-> Absent]

\* the onboarding update with the manual check switched on (line 181:
\* "Or 'pending_approval' if you want a manual check")
OnboardingPatch_ManualCheck(doc, fullName, phone) ==
  [doc EXCEPT !.fullName = fullName, !.phone = phone,
              !.status = "pending_approval", !.onboardedAt = "set"]

\* the fields merged by submitOnboarding's update
OnboardingPatch(doc, fullName, phone) ==
  [doc EXCEPT !.fullName = fullName, !.phone = phone, !.status = "active",
              !.onboardedAt = "set"]

\* the fields merged by approveMember's update
ApprovalPatch(doc, uid) ==
  [doc EXCEPT !.status = "active", !.approvedAt = "set", !.approvedBy = uid]

\* ---------------------------------------------------------------- guards
\* the auth check left out
Unauthenticated_Never(auth) == FALSE

\* if (!request.auth)
Unauthenticated(auth) == auth = NoAuth

\* if (!name || !slug)
OrgArgsMissing(name, slug) == name = "" \/ slug = ""

\* snap.data()?.role: the role read from a membership snapshot, undefined
\* when the document does not exist
RoleRead(members, id) == IF DocExists(members, id) THEN members[id].role ELSE Absent

\* the role check of createInvite letting staff through
CanInvite_Staff(members, id) ==
  DocExists(members, id) /\ members[id].role \in {"owner", "admin", "staff"}

\* createInvite: requesterMembership.exists && ['owner','admin'].includes(role)
CanInvite(members, id) ==
  DocExists(members, id) /\ members[id].role \in {"owner", "admin"}

\* the check of approveMember without the role test
CanApprove_AnyMember(members, id) == DocExists(members, id)

\* approveMember: requesterSnap.exists && ['owner','admin'].includes(role)
CanApprove(members, id) ==
  DocExists(members, id) /\ members[id].role \in {"owner", "admin"}

\* the email check of acceptInvite skipped
EmailMatches_Skipped(inviteEmail, email) == TRUE

\* acceptInvite: inviteData?.email !== email is false
EmailMatches(inviteEmail, email) == inviteEmail = email

\* the existence check of submitOnboarding skipped
MemberFound_Skipped(members, id) == TRUE

\* submitOnboarding: memberSnap.exists
MemberFound(members, id) == DocExists(members, id)

\* ---------------------------------------------------------------- invocation
\* the bookkeeping common to every invocation: slot c starts a handler
Invoke(c) ==
  /\ FreeSlot(c)
  /\ ncalls < MaxCalls
  /\ ncalls' = ncalls + 1

\* createOrg, lines 49-73: auth check, argument check, id generation,
\* await orgRef.set({...})
createOrg(c, auth, name, slug) ==
  /\ Invoke(c)
  /\ LET call == NewCall("createOrg", auth, [NoData EXCEPT !.name = name, !.slug = slug])
         orgId == OrgIdOf(nextOrg)
     IN IF Unauthenticated(auth)
        THEN /\ Throw(c, call, "unauthenticated")
             /\ UNCHANGED <<orgs, nextOrg>>
        ELSE IF OrgArgsMissing(name, slug)
        THEN /\ Throw(c, call, "invalid-argument")
             /\ UNCHANGED <<orgs, nextOrg>>
        ELSE /\ nextOrg <= MaxOrgs
             /\ nextOrg' = nextOrg + 1
             /\ orgs' = DocSet(orgs, orgId, OrgDoc(orgId, name, slug, auth.uid))
             /\ Continue(c, [call EXCEPT !.pc = "member_set", !.orgId = orgId,
                                         !.writes = call.writes + 1])
  /\ UNCHANGED <<orgMembers, invites, nextInvite, accepted>>

\* createOrg, lines 76-85: await orgMembers.doc(`${orgId}_${uid}`).set({...});
\* return
createOrgSetMember(c) ==
  /\ calls[c].op = "createOrg" /\ calls[c].pc = "member_set"
  /\ LET call == calls[c]
     IN /\ orgMembers' = DocSet(orgMembers, MemberDocId(call.orgId, call.auth.uid),
                                OwnerMemberDoc(call.orgId, call.auth.uid, call.auth.email))
        /\ Return(c, [call EXCEPT !.writes = call.writes + 1])
  /\ UNCHANGED <<orgs, invites, nextOrg, nextInvite, ncalls, accepted>>

\* invitation ids still to be generated by createInvite handlers in flight
PendingAdds ==
  Cardinality({d \in Slots : calls[d].op = "createInvite"})

\* createInvite, lines 91-102: auth check, await ...get() of the
\* requester's membership, role check
createInvite(c, auth, orgId, email, role) ==
  /\ Invoke(c)
  /\ LET call == NewCall("createInvite", auth,
                         [NoData EXCEPT !.orgId = orgId, !.email = email, !.role = role])
     IN IF Unauthenticated(auth)
        THEN Throw(c, call, "unauthenticated")
        ELSE IF ~CanInvite(orgMembers, MemberDocId(orgId, auth.uid))
        THEN Throw(c, call, "permission-denied")
        ELSE /\ nextInvite + PendingAdds <= MaxInvites
             /\ Continue(c, [call EXCEPT !.pc = "invite_add",
                     !.requesterRole = RoleRead(orgMembers, MemberDocId(orgId, auth.uid))])
  /\ UNCHANGED <<orgs, orgMembers, invites, nextOrg, nextInvite, accepted>>

\* createInvite, lines 105-114: await invites.add({...}); return
createInviteAdd(c) ==
  /\ calls[c].op = "createInvite" /\ calls[c].pc = "invite_add"
  /\ LET call == calls[c]
     IN /\ invites' = DocSet(invites, InviteIdOf(nextInvite),
                             InviteDoc(call.data.orgId, call.data.email,
                                       call.data.role, call.auth.uid))
        /\ Return(c, [call EXCEPT !.writes = call.writes + 1])
  /\ nextInvite' = nextInvite + 1
  /\ UNCHANGED <<orgs, orgMembers, nextOrg, ncalls, accepted>>

\* the client repeats the acceptInvite request whose handler was just
\* terminated after its Membership write and before its delete (the code
\* retries nothing itself: a retry is a new invocation by the client)
IsRetry(auth, inviteId) ==
  /\ response.op = "acceptInvite"
  /\ response.result = "aborted"
  /\ response.writes = 1
  /\ response.auth = auth
  /\ response.data.inviteId = inviteId

\* acceptInvite, lines 120-142: auth check, await inviteRef.get(),
\* existence check, email check
acceptInvite(c, auth, inviteId) ==
  /\ Invoke(c)
  /\ LET call == [NewCall("acceptInvite", auth, [NoData EXCEPT !.inviteId = inviteId])
                    EXCEPT !.retry = IsRetry(auth, inviteId)]
     IN IF Unauthenticated(auth)
        THEN Throw(c, call, "unauthenticated")
        ELSE IF ~DocExists(invites, inviteId)
        THEN Throw(c, call, "not-found")
        ELSE IF ~EmailMatches(invites[inviteId].email, auth.email)
        THEN Throw(c, call, "permission-denied")
        ELSE Continue(c, [call EXCEPT !.pc = "member_set",
                                      !.inviteData = [orgId |-> invites[inviteId].orgId,
                                                      email |-> invites[inviteId].email,
                                                      role |-> invites[inviteId].role]])
  /\ UNCHANGED <<orgs, orgMembers, invites, nextOrg, nextInvite, accepted>>

\* the Membership written under a generated document id (add() in place of
\* doc(`${orgId}_${uid}`).set())
acceptInviteSetMember_AutoId(c) ==
  /\ calls[c].op = "acceptInvite" /\ calls[c].pc = "member_set"
  /\ LET call == calls[c]
     IN /\ orgMembers' = DocSet(orgMembers,
                                MemberDocId(call.inviteData.orgId, call.auth.uid)
                                  \o "_" \o ToString(ncalls),
                                InvitedMemberDoc(call.inviteData, call.auth.uid,
                                                 call.auth.email))
        /\ Continue(c, [call EXCEPT !.pc = "invite_delete", !.writes = call.writes + 1])
  /\ UNCHANGED <<orgs, invites, nextOrg, nextInvite, ncalls, accepted>>

\* acceptInvite, lines 145-152: await orgMembers.doc(...).set({...})
acceptInviteSetMember(c) ==
  /\ calls[c].op = "acceptInvite" /\ calls[c].pc = "member_set"
  /\ LET call == calls[c]
     IN /\ orgMembers' = DocSet(orgMembers,
                                MemberDocId(call.inviteData.orgId, call.auth.uid),
                                InvitedMemberDoc(call.inviteData, call.auth.uid,
                                                 call.auth.email))
        /\ Continue(c, [call EXCEPT !.pc = "invite_delete", !.writes = call.writes + 1])
  /\ UNCHANGED <<orgs, invites, nextOrg, nextInvite, ncalls, accepted>>

\* acceptInvite returning after the Membership write without deleting the
\* Invitation
acceptInviteDelete_NoDelete(c) ==
  /\ calls[c].op = "acceptInvite" /\ calls[c].pc = "invite_delete"
  /\ LET call == calls[c]
     IN /\ invites' = invites
        /\ Return(c, call)
        /\ accepted' = [accepted EXCEPT ![call.data.inviteId] = @ + 1]
  /\ UNCHANGED <<orgs, orgMembers, nextOrg, nextInvite, ncalls>>

\* acceptInvite, lines 155-157: await inviteRef.delete(); return
acceptInviteDelete(c) ==
  /\ calls[c].op = "acceptInvite" /\ calls[c].pc = "invite_delete"
  /\ LET call == calls[c]
     IN /\ invites' = DocDelete(invites, call.data.inviteId)
        /\ Return(c, [call EXCEPT !.writes = call.writes + 1])
        /\ accepted' = [accepted EXCEPT ![call.data.inviteId] = @ + 1]
  /\ UNCHANGED <<orgs, orgMembers, nextOrg, nextInvite, ncalls>>

\* submitOnboarding, lines 163-176: auth check, await memberRef.get(),
\* existence check
submitOnboarding(c, auth, orgId, fullName, phone) ==
  /\ Invoke(c)
  /\ LET call == NewCall("submitOnboarding", auth,
                         [NoData EXCEPT !.orgId = orgId, !.fullName = fullName,
                                        !.phone = phone])
     IN IF Unauthenticated(auth)
        THEN Throw(c, call, "unauthenticated")
        ELSE IF ~MemberFound(orgMembers, MemberDocId(orgId, auth.uid))
        THEN Throw(c, call, "permission-denied")
        ELSE Continue(c, [call EXCEPT !.pc = "member_update"])
  /\ UNCHANGED <<orgs, orgMembers, invites, nextOrg, nextInvite, accepted>>

\* submitOnboarding, lines 178-185: await memberRef.update({...}); return.
\* update() rejects with the store's NOT_FOUND when the document is
\* absent; the handler does not catch it and onCall reports an error that
\* is not an HttpsError as 'internal'.
submitOnboardingUpdate(c) ==
  /\ calls[c].op = "submitOnboarding" /\ calls[c].pc = "member_update"
  /\ LET call == calls[c]
         id == MemberDocId(call.data.orgId, call.auth.uid)
     IN IF DocExists(orgMembers, id)
        THEN /\ orgMembers' = DocSet(orgMembers, id,
                                     OnboardingPatch(orgMembers[id], call.data.fullName,
                                                     call.data.phone))
             /\ Return(c, [call EXCEPT !.writes = call.writes + 1])
        ELSE /\ orgMembers' = orgMembers
             /\ Throw(c, call, "internal")
  /\ UNCHANGED <<orgs, invites, nextOrg, nextInvite, ncalls, accepted>>

\* approveMember with the requester looked up by uid alone: an owner or
\* admin Membership in any organization passes the check
approveMember_AnyOrg(c, auth, orgId, memberId) ==
  /\ Invoke(c)
  /\ LET call == NewCall("approveMember", auth,
                         [NoData EXCEPT !.orgId = orgId, !.memberId = memberId])
     IN IF Unauthenticated(auth)
        THEN Throw(c, call, "unauthenticated")
        ELSE IF ~\E o \in OrgIds : CanApprove(orgMembers, MemberDocId(o, auth.uid))
        THEN Throw(c, call, "permission-denied")
        ELSE Continue(c, [call EXCEPT !.pc = "target_update",
                !.requesterRole = RoleRead(orgMembers, MemberDocId(orgId, auth.uid))])
  /\ UNCHANGED <<orgs, orgMembers, invites, nextOrg, nextInvite, accepted>>

\* approveMember, lines 190-201: auth check, await ...get() of the
\* requester's membership, role check
approveMember(c, auth, orgId, memberId) ==
  /\ Invoke(c)
  /\ LET call == NewCall("approveMember", auth,
                         [NoData EXCEPT !.orgId = orgId, !.memberId = memberId])
     IN IF Unauthenticated(auth)
        THEN Throw(c, call, "unauthenticated")
        ELSE IF ~CanApprove(orgMembers, MemberDocId(orgId, auth.uid))
        THEN Throw(c, call, "permission-denied")
        ELSE Continue(c, [call EXCEPT !.pc = "target_update",
                !.requesterRole = RoleRead(orgMembers, MemberDocId(orgId, auth.uid))])
  /\ UNCHANGED <<orgs, orgMembers, invites, nextOrg, nextInvite, accepted>>

\* the approval written as an upsert (set with merge in place of update):
\* an absent target is created with the approval fields only
approveMemberUpdate_Upsert(c) ==
  /\ calls[c].op = "approveMember" /\ calls[c].pc = "target_update"
  /\ LET call == calls[c]
         id == MemberDocId(call.data.orgId, call.data.memberId)
         old == IF DocExists(orgMembers, id)
                THEN orgMembers[id]
                ELSE [orgId |-> Absent, uid |-> Absent, email |-> Absent,
                      role |-> Absent, status |-> Absent, joinedAt |-> Absent,
                      fullName |-> Absent, phone |-> Absent, onboardedAt |-> Absent,
                      approvedAt |-> Absent, approvedBy |-> Absent]
     IN /\ orgMembers' = DocSet(orgMembers, id, ApprovalPatch(old, call.auth.uid))
        /\ Return(c, [call EXCEPT !.writes = call.writes + 1])
  /\ UNCHANGED <<orgs, invites, nextOrg, nextInvite, ncalls, accepted>>

\* approveMember, lines 203-209: await orgMembers.doc(...).update({...});
\* return.  update() rejects with the store's NOT_FOUND when the target
\* document is absent; the handler does not catch it and onCall reports it
\* as 'internal'.
approveMemberUpdate(c) ==
  /\ calls[c].op = "approveMember" /\ calls[c].pc = "target_update"
  /\ LET call == calls[c]
         id == MemberDocId(call.data.orgId, call.data.memberId)
     IN IF DocExists(orgMembers, id)
        THEN /\ orgMembers' = DocSet(orgMembers, id,
                                     ApprovalPatch(orgMembers[id], call.auth.uid))
             /\ Return(c, [call EXCEPT !.writes = call.writes + 1])
        ELSE /\ orgMembers' = orgMembers
             /\ Throw(c, call, "internal")
  /\ UNCHANGED <<orgs, invites, nextOrg, nextInvite, ncalls, accepted>>

\* a suspended handler never resumes: its instance is terminated (crash,
\* timeout, cancellation) while it waits on a store call; the client gets
\* no answer from the handler, recorded as "aborted"
Abort(c) ==
  /\ InFlight(c)
  /\ calls' = [calls EXCEPT ![c] = IdleCall]
  /\ response' = Response(calls[c], "aborted")
  /\ UNCHANGED <<orgs, orgMembers, invites, nextOrg, nextInvite, ncalls, accepted>>

Next ==
  \/ \E c \in Slots, auth \in Auths, name \in Names, slug \in Slugs :
       createOrg(c, auth, name, slug)
  \/ \E c \in Slots : createOrgSetMember(c)
  \/ \E c \in Slots, auth \in Auths, orgId \in OrgIds, email \in Emails,
        role \in RolePayloads : createInvite(c, auth, orgId, email, role)
  \/ \E c \in Slots : createInviteAdd(c)
  \/ \E c \in Slots, auth \in Auths, inviteId \in InviteIds :
       acceptInvite(c, auth, inviteId)
  \/ \E c \in Slots : acceptInviteSetMember(c)
  \/ \E c \in Slots : acceptInviteDelete(c)
  \/ \E c \in Slots, auth \in Auths, orgId \in OrgIds :
       submitOnboarding(c, auth, orgId, "Bob", "555-1234")
  \/ \E c \in Slots : submitOnboardingUpdate(c)
  \/ \E c \in Slots, auth \in Auths, orgId \in OrgIds, memberId \in Uids :
       approveMember(c, auth, orgId, memberId)
  \/ \E c \in Slots : approveMemberUpdate(c)
  \/ \E c \in Slots : Abort(c)

Spec == Init /\ [][Next]_vars

\* the resumption of the suspended handler in slot c after its awaited
\* store call has settled
HandlerStep(c) ==
  \/ createOrgSetMember(c)
  \/ createInviteAdd(c)
  \/ acceptInviteSetMember(c)
  \/ acceptInviteDelete(c)
  \/ submitOnboardingUpdate(c)
  \/ approveMemberUpdate(c)

\* the steps of the five handlers when no instance is terminated
NextNoCrash ==
  \/ \E c \in Slots, auth \in Auths, name \in Names, slug \in Slugs :
       createOrg(c, auth, name, slug)
  \/ \E c \in Slots, auth \in Auths, orgId \in OrgIds, email \in Emails,
        role \in RolePayloads : createInvite(c, auth, orgId, email, role)
  \/ \E c \in Slots, auth \in Auths, inviteId \in InviteIds :
       acceptInvite(c, auth, inviteId)
  \/ \E c \in Slots, auth \in Auths, orgId \in OrgIds :
       submitOnboarding(c, auth, orgId, "Bob", "555-1234")
  \/ \E c \in Slots, auth \in Auths, orgId \in OrgIds, memberId \in Uids :
       approveMember(c, auth, orgId, memberId)
  \/ \E c \in Slots : HandlerStep(c)

\* no crash or cancellation, and every awaited store call settles and the
\* event loop resumes the handler waiting for it: weak fairness of each
\* call's steps.  Clients are not obliged to make calls.
SpecFair ==
  /\ Init
  /\ [][NextNoCrash]_vars
  /\ \A c \in Slots : WF_vars(HandlerStep(c))

\* ---------------------------------------------------------------- steps
\* this step is the first step of a new invocation
Invoked == ncalls' = ncalls + 1

\* the request of the invocation that this step starts: it either ended in
\* this step (no slot changed) or occupies the slot that changed
NewRequest ==
  IF calls' = calls
  THEN [op |-> response'.op, auth |-> response'.auth, data |-> response'.data]
  ELSE LET c == CHOOSE d \in Slots : calls'[d] # calls[d]
       IN [op |-> calls'[c].op, auth |-> calls'[c].auth, data |-> calls'[c].data]

\* the invocation that this step starts ended in this step with an error
RejectedWith(code) == calls' = calls /\ response'.result = code

\* this step is taken by the suspended handler of operation op in slot c
Resumed(c, op) == calls[c].op = op /\ calls'[c] # calls[c]

\* this step ends the suspended handler of operation op in slot c with an
\* answer of the handler (a return or a throw, not a termination)
Answered(c, op) ==
  calls[c].op = op /\ calls'[c].pc = "idle" /\ response'.result # "aborted"

Errors == {"unauthenticated", "invalid-argument", "permission-denied", "not-found"}

\* ---------------------------------------------------------------- claims
\* C1: of the acceptInvite calls on one inviteId, under every interleaving
\* of their steps, exactly one succeeds: an invitation is never accepted
\* successfully more than once, after a success the Invitation is gone, and
\* every handler that answers after that success answers not-found.
C1_ExactlyOneAcceptance ==
  [][\A c \in Slots :
       Answered(c, "acceptInvite") =>
         LET i == calls[c].data.inviteId
         IN /\ accepted'[i] <= 1
            /\ response'.result = "ok" => ~DocExists(invites', i)
            /\ accepted[i] >= 1 => response'.result = "not-found"]_vars

\* C2: an Organization exists if and only if its owner Membership exists,
\* in every reachable state.
C2_OrgAndOwnerAtomic ==
  /\ \A o \in DOMAIN orgs : DocExists(orgMembers, MemberDocId(o, orgs[o].ownerId))
  /\ \A m \in DOMAIN orgMembers :
       orgMembers[m].role = "owner" => DocExists(orgs, orgMembers[m].orgId)

\* C3: in no reachable state does an Invitation still exist while an
\* acceptInvite call on it has already written its Membership.
C3_AcceptAllOrNothing ==
  \A c \in Slots :
    (calls[c].op = "acceptInvite" /\ calls[c].writes >= 1)
      => ~DocExists(invites, calls[c].data.inviteId)

\* C4: once an acceptInvite call on an invitation has succeeded, no
\* acceptInvite call on that invitation succeeds again.
C4_SingleUse ==
  [][\A i \in InviteIds : accepted'[i] # accepted[i] => accepted[i] = 0]_vars

\* C9: every stored Membership has a role in {owner, admin, staff} and
\* every stored Invitation has a role in {admin, staff}.
C9_RolesClosed ==
  /\ \A m \in DOMAIN orgMembers : orgMembers[m].role \in MemberRoles
  /\ \A i \in DOMAIN invites : invites[i].role \in InviteRoles

\* C10: every answer of a handler is success, or one of unauthenticated,
\* invalid-argument, permission-denied and not-found given before the
\* handler wrote anything.
C10_ClassifiedOutcomes ==
  /\ response.result \in {"none", "aborted", "ok"} \cup Errors
  /\ response.result \in Errors => response.writes = 0

\* C5: a createInvite call by an authenticated caller is rejected with
\* permission-denied, writing no Invitation, when the caller's Membership
\* in orgId is absent or has role staff at the handler's read; it passes
\* the check when that role is owner or admin, and the handler's answer is
\* then success with exactly one new Invitation, status pending, carrying
\* the request's orgId and email and the caller as invitedBy.
C5_CreateInviteGuard ==
  [][/\ (Invoked /\ NewRequest.op = "createInvite" /\ NewRequest.auth # NoAuth) =>
          LET id == MemberDocId(NewRequest.data.orgId, NewRequest.auth.uid)
          IN /\ (~DocExists(orgMembers, id) \/ orgMembers[id].role = "staff")
                  => (RejectedWith("permission-denied") /\ invites' = invites)
             /\ (DocExists(orgMembers, id) /\ orgMembers[id].role \in {"owner", "admin"})
                  => \E c \in Slots : ~InFlight(c) /\ calls'[c].op = "createInvite"
     /\ \A c \in Slots :
          Resumed(c, "createInvite") =>
            IF Answered(c, "createInvite")
            THEN /\ response'.result = "ok"
                 /\ \E i \in InviteIds \ DOMAIN invites :
                      /\ DOMAIN invites' = DOMAIN invites \cup {i}
                      /\ invites'[i].status = "pending"
                      /\ invites'[i].orgId = calls[c].data.orgId
                      /\ invites'[i].email = calls[c].data.email
                      /\ invites'[i].invitedBy = calls[c].auth.uid
                 /\ \A i \in DOMAIN invites : invites'[i] = invites[i]
            ELSE invites' = invites]_vars

\* a caller with role staff was refused, and no Invitation was written
C5_Witness ==
  /\ response.op = "createInvite"
  /\ response.result = "permission-denied"
  /\ DocExists(orgMembers, MemberDocId(response.data.orgId, response.auth.uid))
  /\ orgMembers[MemberDocId(response.data.orgId, response.auth.uid)].role = "staff"
  /\ invites = <<>>

\* C6: an approveMember call by an authenticated caller whose Membership in
\* orgId is absent or not owner/admin at the handler's read is rejected
\* with permission-denied and changes no Membership; a handler that goes on
\* to the update read role owner or admin for (orgId, caller), and its
\* update changes no Membership other than (orgId, memberId).
C6_ApproveGuard ==
  [][/\ (Invoked /\ NewRequest.op = "approveMember" /\ NewRequest.auth # NoAuth) =>
          LET id == MemberDocId(NewRequest.data.orgId, NewRequest.auth.uid)
          IN IF DocExists(orgMembers, id) /\ orgMembers[id].role \in {"owner", "admin"}
             THEN \E c \in Slots :
                    /\ ~InFlight(c)
                    /\ calls'[c].op = "approveMember"
                    /\ calls'[c].requesterRole = orgMembers[id].role
             ELSE RejectedWith("permission-denied")
     /\ (Invoked /\ NewRequest.op = "approveMember") => orgMembers' = orgMembers
     /\ \A c \in Slots :
          Resumed(c, "approveMember") =>
            /\ calls[c].requesterRole \in {"owner", "admin"}
            /\ DOMAIN orgMembers' = DOMAIN orgMembers
            /\ \A m \in DOMAIN orgMembers :
                 m # MemberDocId(calls[c].data.orgId, calls[c].data.memberId)
                   => orgMembers'[m] = orgMembers[m]]_vars

\* an owner or admin approved a member who was pending onboarding
C6_Witness ==
  /\ response.op = "approveMember"
  /\ response.result = "ok"
  /\ response.auth.uid # response.data.memberId
  /\ LET m == MemberDocId(response.data.orgId, response.data.memberId)
     IN /\ DocExists(orgMembers, m)
        /\ orgMembers[m].status = "active"
        /\ orgMembers[m].approvedBy = response.auth.uid
        /\ orgMembers[m].onboardedAt = Absent

\* C7: an acceptInvite call by an authenticated caller whose email differs
\* from the email of the existing Invitation is rejected with
\* permission-denied; the Invitation still exists after the call and no
\* Membership is created or modified.
C7_EmailMismatchRejected ==
  [][(/\ Invoked
      /\ NewRequest.op = "acceptInvite"
      /\ NewRequest.auth # NoAuth
      /\ DocExists(invites, NewRequest.data.inviteId)
      /\ invites[NewRequest.data.inviteId].email # NewRequest.auth.email)
       => /\ RejectedWith("permission-denied")
          /\ invites' = invites
          /\ DocExists(invites', NewRequest.data.inviteId)
          /\ orgMembers' = orgMembers]_vars

\* a caller with another email was refused and the Invitation is still there
C7_Witness ==
  /\ response.op = "acceptInvite"
  /\ response.result = "permission-denied"
  /\ DocExists(invites, response.data.inviteId)
  /\ invites[response.data.inviteId].email # response.auth.email

\* C8: a submitOnboarding call by an authenticated caller with no
\* Membership (orgId, caller) is rejected with permission-denied and
\* writes nothing; no step of a submitOnboarding handler creates a
\* Membership.
C8_OnboardingNeedsMembership ==
  [][/\ (/\ Invoked
         /\ NewRequest.op = "submitOnboarding"
         /\ NewRequest.auth # NoAuth
         /\ ~DocExists(orgMembers,
                       MemberDocId(NewRequest.data.orgId, NewRequest.auth.uid)))
          => /\ RejectedWith("permission-denied")
             /\ response'.writes = 0
             /\ UNCHANGED <<orgs, orgMembers, invites>>
     /\ (Invoked /\ NewRequest.op = "submitOnboarding")
          => DOMAIN orgMembers' = DOMAIN orgMembers
     /\ \A c \in Slots :
          Resumed(c, "submitOnboarding") =>
            /\ DOMAIN orgMembers' = DOMAIN orgMembers
            /\ response'.result \in {"ok", "aborted"}]_vars

\* a caller without a Membership in an existing organization was refused
C8_Witness ==
  /\ response.op = "submitOnboarding"
  /\ response.result = "permission-denied"
  /\ response.writes = 0
  /\ DocExists(orgs, response.data.orgId)
  /\ ~DocExists(orgMembers, MemberDocId(response.data.orgId, response.auth.uid))

\* the Memberships stored for the pair (orgId, uid)
MembershipsOf(members, orgId, uid) ==
  {m \in DOMAIN members : members[m].orgId = orgId /\ members[m].uid = uid}

\* C11: when a retried acceptInvite (the same caller and inviteId, after a
\* handler that was terminated between its Membership write and its delete)
\* returns success, there is exactly one Membership for (invitation.orgId,
\* caller uid), it carries the invitation's role, and the Invitation is gone.
C11_RetryNoDuplicate ==
  [][\A c \in Slots :
       (Answered(c, "acceptInvite") /\ response'.result = "ok" /\ calls[c].retry) =>
         LET o == calls[c].inviteData.orgId
             u == calls[c].auth.uid
         IN /\ MembershipsOf(orgMembers', o, u) = {MemberDocId(o, u)}
            /\ orgMembers'[MemberDocId(o, u)].role = calls[c].inviteData.role
            /\ ~DocExists(invites', calls[c].data.inviteId)]_vars

\* a retry returned success: one Membership for the pair, Invitation gone
C11_Witness ==
  /\ response.op = "acceptInvite"
  /\ response.result = "ok"
  /\ response.retry
  /\ ~DocExists(invites, response.data.inviteId)
  /\ \E o \in OrgIds :
       Cardinality(MembershipsOf(orgMembers, o, response.auth.uid)) = 1

\* C12: an approveMember call addressed at a pair (orgId, memberId) with
\* no Membership creates none: its update fails, the call does not answer
\* success, and the Memberships are unchanged by every step of the call.
C12_ApproveCreatesNothing ==
  [][/\ (Invoked /\ NewRequest.op = "approveMember") => orgMembers' = orgMembers
     /\ \A c \in Slots :
          (/\ Resumed(c, "approveMember")
           /\ ~DocExists(orgMembers,
                         MemberDocId(calls[c].data.orgId, calls[c].data.memberId)))
            => /\ orgMembers' = orgMembers
               /\ response'.result \in {"internal", "aborted"}
               /\ response'.writes = 0]_vars

\* an authorized approveMember on an absent Membership failed, and the
\* Membership is still absent
C12_Witness ==
  /\ response.op = "approveMember"
  /\ response.result = "internal"
  /\ response.writes = 0
  /\ DocExists(orgMembers, MemberDocId(response.data.orgId, response.auth.uid))
  /\ ~DocExists(orgMembers, MemberDocId(response.data.orgId, response.data.memberId))

\* C13: an invocation of any of the five operations without a caller
\* identity ends with unauthenticated in its first step, before any store
\* call: orgs, orgMembers and invites are unchanged and no id is generated;
\* for createOrg also when name or slug is empty.
C13_UnauthenticatedFirst ==
  [][(Invoked /\ NewRequest.auth = NoAuth) =>
       /\ NewRequest.op \in {"createOrg", "createInvite", "acceptInvite",
                             "submitOnboarding", "approveMember"}
       /\ RejectedWith("unauthenticated")
       /\ response'.writes = 0
       /\ UNCHANGED <<orgs, orgMembers, invites, nextOrg, nextInvite>>]_vars

\* createOrg without a caller and with an empty name answered
\* unauthenticated, although organizations exist
C13_Witness ==
  /\ response.op = "createOrg"
  /\ response.auth = NoAuth
  /\ response.data.name = ""
  /\ response.result = "unauthenticated"
  /\ orgs # <<>>

\* every Membership other than id is the same before and after the step
OthersUnchanged(id) ==
  /\ DOMAIN orgMembers' \ {id} = DOMAIN orgMembers \ {id}
  /\ \A m \in DOMAIN orgMembers \ {id} : orgMembers'[m] = orgMembers[m]

\* C14: the steps of the end-to-end sequence have these effects.  createOrg
\* by U1 returns with org O1 stored and Membership (O1,U1) role owner,
\* status active; createInvite(O1, e, role) by U1 returns with a new
\* Invitation for O1, e and role; acceptInvite by U2 with email e writes
\* (O1,U2) with the invitation's role and status pending_onboarding and
\* returns with the Invitation deleted; submitOnboarding by U2 returns with
\* (O1,U2) status active, fullName and phone set and the role kept; no step
\* of a handler changes a Membership other than the one it addresses, so
\* (O1,U1) is unchanged by U2's calls.
C14_EndToEnd ==
  [][\A c \in Slots :
       LET call == calls[c]
           uid == call.auth.uid
       IN /\ Answered(c, "createOrg") =>
               /\ response'.result = "ok"
               /\ DocExists(orgs', call.orgId)
               /\ orgs'[call.orgId].ownerId = uid
               /\ DocExists(orgMembers', MemberDocId(call.orgId, uid))
               /\ orgMembers'[MemberDocId(call.orgId, uid)].role = "owner"
               /\ orgMembers'[MemberDocId(call.orgId, uid)].status = "active"
               /\ OthersUnchanged(MemberDocId(call.orgId, uid))
          /\ Answered(c, "createInvite") =>
               /\ response'.result = "ok"
               /\ orgMembers' = orgMembers
               /\ \E i \in InviteIds \ DOMAIN invites :
                    /\ DocExists(invites', i)
                    /\ invites'[i].orgId = call.data.orgId
                    /\ invites'[i].email = call.data.email
                    /\ invites'[i].role = call.data.role
          /\ (Resumed(c, "acceptInvite") /\ calls'[c].pc = "invite_delete") =>
               LET id == MemberDocId(call.inviteData.orgId, uid)
               IN /\ DocExists(orgMembers', id)
                  /\ orgMembers'[id].orgId = call.inviteData.orgId
                  /\ orgMembers'[id].uid = uid
                  /\ orgMembers'[id].role = call.inviteData.role
                  /\ orgMembers'[id].status = "pending_onboarding"
                  /\ OthersUnchanged(id)
          /\ Answered(c, "acceptInvite") =>
               /\ response'.result = "ok"
               /\ ~DocExists(invites', call.data.inviteId)
               /\ orgMembers' = orgMembers
          /\ Answered(c, "submitOnboarding") =>
               LET id == MemberDocId(call.data.orgId, uid)
               IN /\ response'.result = "ok"
                  /\ orgMembers'[id].status = "active"
                  /\ orgMembers'[id].fullName = call.data.fullName
                  /\ orgMembers'[id].phone = call.data.phone
                  /\ orgMembers'[id].role = orgMembers[id].role
                  /\ OthersUnchanged(id)
          /\ \A i \in InviteIds :
               (Invoked /\ ~InFlight(c) /\ calls'[c].op = "acceptInvite"
                  /\ calls'[c].data.inviteId = i) =>
                 /\ calls'[c].inviteData.orgId = invites[i].orgId
                 /\ calls'[c].inviteData.role = invites[i].role
                 /\ calls'[c].auth.email = invites[i].email]_vars

\* the end of the sequence: four calls were made, the last one a
\* successful submitOnboarding by the invited user; the store holds the
\* organization, the untouched owner Membership and the invited user's
\* Membership, role staff, status active, profile set, and no Invitation
C14_Witness ==
  /\ ncalls = 4
  /\ \A c \in Slots : ~InFlight(c)
  /\ response.op = "submitOnboarding"
  /\ response.result = "ok"
  /\ invites = <<>>
  /\ accepted[InviteIdOf(1)] = 1
  /\ DOMAIN orgs = {OrgIdOf(1)}
  /\ LET o == OrgIdOf(1)
         owner == CHOOSE a \in Identities : a.uid = orgs[o].ownerId
         staff == response.auth
     IN /\ owner.uid # staff.uid
        /\ DOMAIN orgMembers = {MemberDocId(o, owner.uid), MemberDocId(o, staff.uid)}
        /\ orgMembers[MemberDocId(o, owner.uid)] = OwnerMemberDoc(o, owner.uid, owner.email)
        /\ orgMembers[MemberDocId(o, staff.uid)].role = "staff"
        /\ orgMembers[MemberDocId(o, staff.uid)].status = "active"
        /\ orgMembers[MemberDocId(o, staff.uid)].fullName = "Bob"
        /\ orgMembers[MemberDocId(o, staff.uid)].phone = "555-1234"

\* C15: a Membership is created with status active (by createOrg) or
\* pending_onboarding (by acceptInvite) only; an existing Membership with
\* status active never gets another status; no Membership has status
\* pending_approval.
C15_StatusTransitions ==
  [][\A m \in DOMAIN orgMembers' :
       /\ orgMembers'[m].status # "pending_approval"
       /\ ~DocExists(orgMembers, m) =>
            \E c \in Slots :
              \/ Resumed(c, "createOrg") /\ orgMembers'[m].status = "active"
              \/ Resumed(c, "acceptInvite")
                   /\ orgMembers'[m].status = "pending_onboarding"
       /\ (DocExists(orgMembers, m) /\ orgMembers[m].status = "active")
            => orgMembers'[m].status = "active"]_vars

\* C16: an Organization record, once written, is never written again, an
\* Organization is written only by the first step of a createOrg call, under
\* a new id, and a Membership that exists exists in the next state.
C16_OrgsImmutableMembersKept ==
  [][/\ \A o \in DOMAIN orgs : DocExists(orgs', o) /\ orgs'[o] = orgs[o]
     /\ orgs' # orgs =>
          /\ Invoked
          /\ NewRequest.op = "createOrg"
          /\ Cardinality(DOMAIN orgs') = Cardinality(DOMAIN orgs) + 1
     /\ DOMAIN orgMembers \subseteq DOMAIN orgMembers']_vars

\* two organizations are stored, each as its createOrg call wrote it, and
\* Memberships have been written and overwritten since
C16_Witness ==
  /\ Cardinality(DOMAIN orgs) = 2
  /\ \A o \in DOMAIN orgs :
       \E a \in Identities : orgs[o] = OrgDoc(o, "Acme", "acme", a.uid)
  /\ response.op = "submitOnboarding"
  /\ response.result = "ok"
  /\ Cardinality(DOMAIN orgMembers) = 2

\* C17: once the owner Membership (orgId, ownerId) of an Organization has
\* been written by createOrg with role owner and status active, it keeps
\* role owner and status active.
C17_OwnerNeverDemoted ==
  [][\A o \in DOMAIN orgs :
       LET id == MemberDocId(o, orgs[o].ownerId)
       IN (/\ DocExists(orgMembers, id)
           /\ orgMembers[id].role = "owner"
           /\ orgMembers[id].status = "active")
            => /\ DocExists(orgMembers', id)
               /\ orgMembers'[id].role = "owner"
               /\ orgMembers'[id].status = "active"]_vars

\* the handler that takes this step (a step changes one slot, unless it is
\* an invocation that is rejected at once)
Actor ==
  LET c == CHOOSE d \in Slots : calls'[d] # calls[d]
  IN IF InFlight(c) THEN calls[c] ELSE calls'[c]

\* C18: tenant isolation.  A step that creates or changes a Membership of
\* an organization O other than the caller's own (O, caller uid), or that
\* creates an Invitation for O, is a step of an approveMember or
\* createInvite handler addressed at O whose caller held an owner or admin
\* Membership in O when the handler made its authorization read.
C18_TenantIsolation ==
  [][/\ (orgMembers' # orgMembers \/ invites' # invites) => calls' # calls
     /\ calls' # calls =>
          LET a == Actor
          IN /\ \A m \in DOMAIN orgMembers' :
                  (~DocExists(orgMembers, m) \/ orgMembers'[m] # orgMembers[m]) =>
                    \/ m = MemberDocId(orgMembers'[m].orgId, a.auth.uid)
                    \/ /\ a.op = "approveMember"
                       /\ a.data.orgId = orgMembers'[m].orgId
                       /\ a.requesterRole \in {"owner", "admin"}
             /\ \A i \in DOMAIN invites' \ DOMAIN invites :
                  /\ a.op = "createInvite"
                  /\ a.data.orgId = invites'[i].orgId
                  /\ a.requesterRole \in {"owner", "admin"}
             /\ (Invoked /\ a.op \in {"createInvite", "approveMember"}) =>
                  LET id == MemberDocId(a.data.orgId, a.auth.uid)
                  IN /\ DocExists(orgMembers, id)
                     /\ orgMembers[id].role \in {"owner", "admin"}
                     /\ a.requesterRole = orgMembers[id].role]_vars

\* the owner of one organization was refused when approving a member of
\* another organization, whose Memberships are as they were written
C18_Witness ==
  /\ response.op = "approveMember"
  /\ response.result = "permission-denied"
  /\ \E o \in OrgIds \ {response.data.orgId} :
       /\ DocExists(orgMembers, MemberDocId(o, response.auth.uid))
       /\ orgMembers[MemberDocId(o, response.auth.uid)].role = "owner"
  /\ ~DocExists(orgMembers, MemberDocId(response.data.orgId, response.auth.uid))
  /\ LET m == MemberDocId(response.data.orgId, response.data.memberId)
     IN /\ DocExists(orgMembers, m)
        /\ orgMembers[m].approvedBy = Absent

\* C19: the authorization check and the guarded write are not separated by
\* a role change.  When a createInvite handler writes its Invitation, and
\* when an approveMember handler writes the target Membership, the
\* caller's Membership in orgId still has role owner or admin.
C19_RoleHeldAtWrite ==
  [][\A c \in Slots :
       (\/ Resumed(c, "createInvite") /\ invites' # invites
        \/ Resumed(c, "approveMember") /\ orgMembers' # orgMembers) =>
         LET id == MemberDocId(calls[c].data.orgId, calls[c].auth.uid)
         IN /\ DocExists(orgMembers, id)
            /\ orgMembers[id].role \in {"owner", "admin"}]_vars

\* C20: with no crash or cancellation and weak fairness of each call's
\* steps, every acceptInvite call that has written its Membership
\* eventually deletes the Invitation and returns: the Invitation it has
\* converted is eventually absent from the store and the call is over.
C20_ConvertedInviteDeleted ==
  \A c \in Slots, i \in InviteIds :
    (/\ calls[c].op = "acceptInvite"
     /\ calls[c].pc = "invite_delete"
     /\ calls[c].data.inviteId = i)
      ~> (~DocExists(invites, i) /\ ~InFlight(c) /\ accepted[i] > 0)

\* two concurrent acceptances of one Invitation have both written their
\* Membership and both returned, and the Invitation is gone
C20_Witness ==
  \E i \in InviteIds :
    /\ accepted[i] = 2
    /\ ~DocExists(invites, i)
    /\ \A c \in Slots : ~InFlight(c)
    /\ response.op = "acceptInvite"
    /\ response.result = "ok"
    /\ response.data.inviteId = i
    /\ response.writes = 2

====
